---- MODULE Spec2Model ----
(***************************************************************************)
(* Model of the Mergington High School activities API (src/src/app.py):    *)
(* an in-memory mapping from activity name to activity, and the handlers   *)
(* GET /, GET /activities, POST .../signup and DELETE .../unregister.      *)
(***************************************************************************)
EXTENDS Integers, Sequences, FiniteSets, TLC

VARIABLES
    activities,   \* the module-level dict `activities` of app.py
    request,      \* the request handled last (serialized handling)
    response,     \* the response the last request got
    before,       \* value of `activities` when the last request started
    log,          \* history: the successful signup/unregister requests, in order
    threads       \* concurrent handling: per worker thread, its request, its
                  \* position, and the participants list as its membership
                  \* check found it (seen)

vars == <<activities, request, response, before, log, threads>>

(***************************************************************************)
(* Bounds of the model.                                                    *)
(***************************************************************************)
NumEmails == 3      \* how many emails of EmailPool the requests draw from
MaxLog == 3         \* history length (SpecHist stops taking requests there)
NumThreads == 2     \* worker threads handling one request each (SpecConc)

(***************************************************************************)
(* The seeded roster, app.py lines 23-85.  Two entries carry no "name".    *)
(***************************************************************************)
SeededActivities ==
    ("Soccer Club" :> [
        name |-> "Soccer Club",
        description |-> "Join our competitive soccer team and participate in friendly matches",
        schedule |-> "Mondays and Wednesdays, 4:00 PM - 5:30 PM",
        max_participants |-> 22,
        participants |-> <<"alex@mergington.edu">>])
    @@ ("Tennis Team" :> [
        name |-> "Tennis Team",
        description |-> "Develop tennis skills and compete in intramural tournaments",
        schedule |-> "Tuesdays and Thursdays, 3:30 PM - 5:00 PM",
        max_participants |-> 16,
        participants |-> <<"james@mergington.edu">>])
    @@ ("Art Club" :> [
        name |-> "Art Club",
        description |-> "Explore various art mediums including painting, drawing, and sculpture",
        schedule |-> "Wednesdays, 3:30 PM - 5:00 PM",
        max_participants |-> 15,
        participants |-> <<"isabella@mergington.edu">>])
    @@ ("Drama Club" :> [
        name |-> "Drama Club",
        description |-> "Perform in theatrical productions and develop acting skills",
        schedule |-> "Mondays, Wednesdays, Fridays, 3:30 PM - 5:00 PM",
        max_participants |-> 20,
        participants |-> <<"lucas@mergington.edu", "grace@mergington.edu">>])
    @@ ("Robotics Club" :> [
        name |-> "Robotics Club",
        description |-> "Build and program robots for competitions and challenges",
        schedule |-> "Saturdays, 10:00 AM - 12:00 PM",
        max_participants |-> 18,
        participants |-> <<"ryan@mergington.edu">>])
    @@ ("Math Team" :> [
        name |-> "Math Team",
        description |-> "Solve challenging math problems and compete in regional competitions",
        schedule |-> "Thursdays, 4:00 PM - 5:30 PM",
        max_participants |-> 12,
        participants |-> <<"zoe@mergington.edu">>])
    @@ ("Chess Club" :> [
        name |-> "Chess Club",
        description |-> "Learn strategies and compete in chess tournaments",
        schedule |-> "Fridays, 3:30 PM - 5:00 PM",
        max_participants |-> 12,
        participants |-> <<"michael@mergington.edu", "daniel@mergington.edu">>])
    @@ ("Programming Class" :> [
        description |-> "Learn programming fundamentals and build software projects",
        schedule |-> "Tuesdays and Thursdays, 3:30 PM - 4:30 PM",
        max_participants |-> 20,
        participants |-> <<"emma@mergington.edu", "sophia@mergington.edu">>])
    @@ ("Gym Class" :> [
        description |-> "Physical education and sports activities",
        schedule |-> "Mondays, Wednesdays, Fridays, 2:00 PM - 3:00 PM",
        max_participants |-> 30,
        participants |-> <<"john@mergington.edu", "olivia@mergington.edu">>])

(***************************************************************************)
(* Inputs of the requests: path parameter activity_name and query          *)
(* parameter email.  "Underwater Basket Weaving" is the unknown activity   *)
(* of the tests; alex is seeded in Soccer Club, the others are new.        *)
(***************************************************************************)
EmailPool ==
    <<"alex@mergington.edu", "alice@mergington.edu", "bob@mergington.edu",
      "charlie@mergington.edu", "student@mergington.edu">>

Emails == {EmailPool[i] : i \in 1..NumEmails}

ActivityNames == {"Soccer Club", "Chess Club", "Underwater Basket Weaving"}

(***************************************************************************)
(* Python list primitives the handlers use.                                *)
(***************************************************************************)
\* `x in l`
Contains(l, x) == \E i \in 1..Len(l) : l[i] = x

\* mutant of ListAppend: l.insert(0, x)
ListPrepend(l, x) == <<x>> \o l

\* mutant of ListAppend: l.insert(-1, x), x goes in front of the last element
ListInsertBeforeLast(l, x) ==
    IF l = <<>>
    THEN <<x>>
    ELSE SubSeq(l, 1, Len(l) - 1) \o <<x, l[Len(l)]>>

\* l.append(x): x becomes the last element
ListAppend(l, x) == Append(l, x)

\* index of the first occurrence of x in l (x occurs in l)
FirstIndex(l, x) ==
    CHOOSE i \in 1..Len(l) : l[i] = x /\ \A j \in 1..(i - 1) : l[j] # x

\* mutant of ListRemove: l.pop(), the last element goes whatever x is
ListPop(l, x) == SubSeq(l, 1, Len(l) - 1)

\* mutant of ListRemove: l.pop(0), the first element goes whatever x is
ListRemoveHead(l, x) == Tail(l)

\* mutant of ListRemove: swap-remove, the last element takes the place of x
ListSwapRemove(l, x) ==
    LET i == FirstIndex(l, x)
    IN  [k \in 1..(Len(l) - 1) |-> IF k = i THEN l[Len(l)] ELSE l[k]]

\* l.remove(x) for x in l: the first occurrence goes, the rest keep their order
ListRemove(l, x) ==
    LET i == FirstIndex(l, x)
    IN  [k \in 1..(Len(l) - 1) |-> IF k < i THEN l[k] ELSE l[k + 1]]

(***************************************************************************)
(* Responses.  A raised HTTPException(status_code, detail) is answered     *)
(* with that status and the body {"detail": detail}; a returned dict is    *)
(* answered with 200 and the dict as body.                                 *)
(***************************************************************************)
HTTPException(status_code, detail) ==
    [status_code |-> status_code, body |-> [detail |-> detail]]

Ok(body) == [status_code |-> 200, body |-> body]

\* f"Signed up {email} for {activity_name}"
SignedUpMessage(activity_name, email) ==
    "Signed up " \o email \o " for " \o activity_name

\* f"Unregistered {email} from {activity_name}"
UnregisteredMessage(activity_name, email) ==
    "Unregistered " \o email \o " from " \o activity_name

(***************************************************************************)
(* The mutating statements of the handlers with their return statements:   *)
(* the roster afterwards and the response.                                 *)
(***************************************************************************)
\* mutant of AppendStep: the email is added only when absent, as to a set
AppendIfAbsent(acts, activity_name, email) ==
    [activities |->
         IF Contains(acts[activity_name].participants, email)
         THEN acts
         ELSE [acts EXCEPT ![activity_name].participants = ListAppend(@, email)],
     response |-> Ok([message |-> SignedUpMessage(activity_name, email)])]

\* mutant of AppendStep: a signup also counts down the places left
AppendTakesPlace(acts, activity_name, email) ==
    [activities |->
         [acts EXCEPT ![activity_name].participants = ListAppend(@, email),
                      ![activity_name].max_participants = @ - 1],
     response |-> Ok([message |-> SignedUpMessage(activity_name, email)])]

\* activity["participants"].append(email); return {"message": ...}
AppendStep(acts, activity_name, email) ==
    [activities |->
         [acts EXCEPT ![activity_name].participants = ListAppend(@, email)],
     response |-> Ok([message |-> SignedUpMessage(activity_name, email)])]

\* activity["participants"].remove(email); return {"message": ...}
\* list.remove raises ValueError when the email is not in the list: the
\* handler does not catch it and the request ends with a server error.
RemoveStep(acts, activity_name, email) ==
    IF Contains(acts[activity_name].participants, email)
    THEN [activities |->
              [acts EXCEPT ![activity_name].participants = ListRemove(@, email)],
          response |-> Ok([message |-> UnregisteredMessage(activity_name, email)])]
    ELSE [activities |-> acts,
          response |-> [status_code |-> 500,
                        body |-> [error |-> "ValueError"]]]

(***************************************************************************)
(* The handlers as functions of the roster: the roster afterwards and the  *)
(* response.                                                               *)
(***************************************************************************)
\* mutant of SignupResult: the membership check is missing
SignupWithoutDuplicateCheck(acts, activity_name, email) ==
    IF activity_name \notin DOMAIN acts
    THEN [activities |-> acts,
          response |-> HTTPException(404, "Activity not found")]
    ELSE [activities |->
              [acts EXCEPT ![activity_name].participants = ListAppend(@, email)],
          response |-> Ok([message |-> SignedUpMessage(activity_name, email)])]

\* mutant of SignupResult: the email is appended before the membership check
SignupAppendsBeforeCheck(acts, activity_name, email) ==
    IF activity_name \notin DOMAIN acts
    THEN [activities |-> acts,
          response |-> HTTPException(404, "Activity not found")]
    ELSE [activities |->
              [acts EXCEPT ![activity_name].participants = ListAppend(@, email)],
          response |->
              IF Contains(acts[activity_name].participants, email)
              THEN HTTPException(400, "Student already signed up for this activity")
              ELSE Ok([message |-> SignedUpMessage(activity_name, email)])]

\* mutant of SignupResult: an unknown activity is created on signup
SignupCreatesActivity(acts, activity_name, email) ==
    IF activity_name \notin DOMAIN acts
    THEN [activities |-> acts @@ (activity_name :> [participants |-> <<email>>]),
          response |-> HTTPException(404, "Activity not found")]
    ELSE IF Contains(acts[activity_name].participants, email)
    THEN [activities |-> acts,
          response |-> HTTPException(400, "Student already signed up for this activity")]
    ELSE [activities |->
              [acts EXCEPT ![activity_name].participants = ListAppend(@, email)],
          response |-> Ok([message |-> SignedUpMessage(activity_name, email)])]

\* mutant of SignupResult: a full activity refuses the signup
SignupWithCapacityCheck(acts, activity_name, email) ==
    IF activity_name \notin DOMAIN acts
    THEN [activities |-> acts,
          response |-> HTTPException(404, "Activity not found")]
    ELSE IF Contains(acts[activity_name].participants, email)
    THEN [activities |-> acts,
          response |-> HTTPException(400, "Student already signed up for this activity")]
    ELSE IF Len(acts[activity_name].participants) >= acts[activity_name].max_participants
    THEN [activities |-> acts,
          response |-> HTTPException(400, "Activity is full")]
    ELSE [activities |->
              [acts EXCEPT ![activity_name].participants = ListAppend(@, email)],
          response |-> Ok([message |-> SignedUpMessage(activity_name, email)])]

\* mutant of SignupResult: the email is looked up in every activity
SignupChecksEveryActivity(acts, activity_name, email) ==
    IF activity_name \notin DOMAIN acts
    THEN [activities |-> acts,
          response |-> HTTPException(404, "Activity not found")]
    ELSE IF \E a \in DOMAIN acts : Contains(acts[a].participants, email)
    THEN [activities |-> acts,
          response |-> HTTPException(400, "Student already signed up for this activity")]
    ELSE [activities |->
              [acts EXCEPT ![activity_name].participants = ListAppend(@, email)],
          response |-> Ok([message |-> SignedUpMessage(activity_name, email)])]

SignupResult(acts, activity_name, email) ==
    IF activity_name \notin DOMAIN acts
    THEN [activities |-> acts,
          response |-> HTTPException(404, "Activity not found")]
    ELSE IF Contains(acts[activity_name].participants, email)
    THEN [activities |-> acts,
          response |-> HTTPException(400, "Student already signed up for this activity")]
    ELSE AppendStep(acts, activity_name, email)

\* mutant of UnregisterResult: an absent email is ignored and answered with 200
UnregisterIgnoresAbsent(acts, activity_name, email) ==
    IF activity_name \notin DOMAIN acts
    THEN [activities |-> acts,
          response |-> HTTPException(404, "Activity not found")]
    ELSE IF ~Contains(acts[activity_name].participants, email)
    THEN [activities |-> acts,
          response |-> Ok([message |-> UnregisteredMessage(activity_name, email)])]
    ELSE [activities |->
              [acts EXCEPT ![activity_name].participants = ListRemove(@, email)],
          response |-> Ok([message |-> UnregisteredMessage(activity_name, email)])]

UnregisterResult(acts, activity_name, email) ==
    IF activity_name \notin DOMAIN acts
    THEN [activities |-> acts,
          response |-> HTTPException(404, "Activity not found")]
    ELSE IF ~Contains(acts[activity_name].participants, email)
    THEN [activities |-> acts,
          response |-> HTTPException(400, "Student not signed up for this activity")]
    ELSE RemoveStep(acts, activity_name, email)

(***************************************************************************)
(* Serialized handling: each request runs to completion.                   *)
(***************************************************************************)
NoRequest == [op |-> "none", activity_name |-> "", email |-> ""]
NoResponse == [status_code |-> 0, body |-> [detail |-> ""]]

Init ==
    /\ activities = SeededActivities
    /\ request = NoRequest
    /\ response = NoResponse
    /\ before = SeededActivities
    /\ log = <<>>
    /\ threads = [t \in 1..NumThreads |-> [pc |-> "idle", request |-> NoRequest,
                                           response |-> NoResponse,
                                           seen |-> <<>>]]

\* mutant of root: the redirect leaves out the /static mount
root_without_mount ==
    /\ request' = [op |-> "root", activity_name |-> "", email |-> ""]
    /\ response' = [status_code |-> 307,
                    headers |-> [location |-> "/index.html"]]
    /\ before' = activities
    /\ UNCHANGED activities

\* GET /
root ==
    /\ request' = [op |-> "root", activity_name |-> "", email |-> ""]
    /\ response' = [status_code |-> 307,
                    headers |-> [location |-> "/static/index.html"]]
    /\ before' = activities
    /\ UNCHANGED activities

\* mutant of get_activities: the roster as seeded is returned, not the current one
get_activities_as_seeded ==
    /\ request' = [op |-> "list", activity_name |-> "", email |-> ""]
    /\ response' = Ok(SeededActivities)
    /\ before' = activities
    /\ UNCHANGED activities

\* GET /activities
get_activities ==
    /\ request' = [op |-> "list", activity_name |-> "", email |-> ""]
    /\ response' = Ok(activities)
    /\ before' = activities
    /\ UNCHANGED activities

\* POST /activities/{activity_name}/signup?email=
signup_for_activity(activity_name, email) ==
    LET r == SignupResult(activities, activity_name, email)
    IN  /\ request' = [op |-> "signup", activity_name |-> activity_name,
                       email |-> email]
        /\ response' = r.response
        /\ before' = activities
        /\ activities' = r.activities

\* DELETE /activities/{activity_name}/unregister?email=
unregister_from_activity(activity_name, email) ==
    LET r == UnregisterResult(activities, activity_name, email)
    IN  /\ request' = [op |-> "unregister", activity_name |-> activity_name,
                       email |-> email]
        /\ response' = r.response
        /\ before' = activities
        /\ activities' = r.activities

\* the history and the worker threads take no part
Unrecorded == UNCHANGED <<log, threads>>

Next ==
    \/ root /\ Unrecorded
    \/ get_activities /\ Unrecorded
    \/ \E a \in ActivityNames, e \in Emails :
           signup_for_activity(a, e) /\ Unrecorded
    \/ \E a \in ActivityNames, e \in Emails :
           unregister_from_activity(a, e) /\ Unrecorded

Spec == Init /\ [][Next]_vars

(***************************************************************************)
(* Serialized handling with its history: every successful signup and       *)
(* unregister is appended to log, up to MaxLog entries.                    *)
(***************************************************************************)
Mutated ==
    request'.op \in {"signup", "unregister"} /\ response'.status_code = 200

Recorded ==
    /\ Len(log) < MaxLog
    /\ log' = IF Mutated THEN Append(log, request') ELSE log
    /\ UNCHANGED threads

NextHist ==
    \/ root /\ Recorded
    \/ get_activities /\ Recorded
    \/ \E a \in ActivityNames, e \in Emails :
           signup_for_activity(a, e) /\ Recorded
    \/ \E a \in ActivityNames, e \in Emails :
           unregister_from_activity(a, e) /\ Recorded

SpecHist == Init /\ [][NextHist]_vars

(***************************************************************************)
(* Serialized handling that starts after Math Team, the activity with the  *)
(* smallest max_participants, was filled up to it by signups.              *)
(***************************************************************************)
RECURSIVE SignupAll(_, _, _)
SignupAll(acts, activity_name, emails) ==
    IF emails = <<>>
    THEN acts
    ELSE SignupAll(SignupResult(acts, activity_name, Head(emails)).activities,
                   activity_name, Tail(emails))

StudentEmails(n) ==
    [i \in 1..n |-> "student" \o ToString(i) \o "@mergington.edu"]

FullActivity == "Math Team"

FilledActivities ==
    SignupAll(SeededActivities, FullActivity,
              StudentEmails(SeededActivities[FullActivity].max_participants
                            - Len(SeededActivities[FullActivity].participants)))

FullActivityNames == {FullActivity, "Soccer Club"}

InitFull ==
    /\ activities = FilledActivities
    /\ request = NoRequest
    /\ response = NoResponse
    /\ before = FilledActivities
    /\ log = <<>>
    /\ threads = [t \in 1..NumThreads |-> [pc |-> "idle", request |-> NoRequest,
                                           response |-> NoResponse,
                                           seen |-> <<>>]]

NextFull ==
    \/ root /\ Unrecorded
    \/ get_activities /\ Unrecorded
    \/ \E a \in FullActivityNames, e \in Emails :
           signup_for_activity(a, e) /\ Unrecorded
    \/ \E a \in FullActivityNames, e \in Emails :
           unregister_from_activity(a, e) /\ Unrecorded

SpecFull == InitFull /\ [][NextFull]_vars

(***************************************************************************)
(* Concurrent handling: the handlers are plain `def` functions, which the  *)
(* framework runs on worker threads.  A thread takes one request and runs  *)
(* the handler statement by statement: the activity check (lines 102, 123),*)
(* the membership check (lines 109, 130), the mutation with the return     *)
(* (lines 115-116, 134-135).  Steps of different threads interleave.       *)
(***************************************************************************)
Threads == 1..NumThreads

ConcActivityNames == {"Soccer Club", "Underwater Basket Weaving"}

ConcEmails ==
    {"alex@mergington.edu", "alice@mergington.edu", "bob@mergington.edu"}

Serial == UNCHANGED <<request, response, before, log>>

Finish(t, resp) ==
    threads' = [threads EXCEPT ![t].pc = "done", ![t].response = resp]

\* the framework hands a request to thread t
Dispatch(t, op, activity_name, email) ==
    /\ threads[t].pc = "idle"
    /\ threads' = [threads EXCEPT
           ![t].pc = "check_activity",
           ![t].request = [op |-> op, activity_name |-> activity_name,
                           email |-> email]]
    /\ UNCHANGED activities
    /\ Serial

\* if activity_name not in activities: raise HTTPException(404, ...)
CheckActivity(t) ==
    /\ threads[t].pc = "check_activity"
    /\ IF threads[t].request.activity_name \notin DOMAIN activities
       THEN Finish(t, HTTPException(404, "Activity not found"))
       ELSE threads' = [threads EXCEPT ![t].pc = "check_email"]
    /\ UNCHANGED activities
    /\ Serial

\* if email [not] in activity["participants"]: raise HTTPException(400, ...)
CheckEmail(t) ==
    LET r == threads[t].request
        present == Contains(activities[r.activity_name].participants, r.email)
    IN  /\ threads[t].pc = "check_email"
        /\ IF r.op = "signup" /\ present
           THEN Finish(t, HTTPException(400,
                            "Student already signed up for this activity"))
           ELSE IF r.op = "unregister" /\ ~present
           THEN Finish(t, HTTPException(400,
                            "Student not signed up for this activity"))
           ELSE threads' = [threads EXCEPT
                    ![t].pc = "mutate",
                    ![t].seen = activities[r.activity_name].participants]
        /\ UNCHANGED activities
        /\ Serial

\* mutant of Mutate: read-copy-write, the list the membership check found is
\* changed and stored as the activity's participants
MutateWritesBackCopy(t) ==
    LET r == threads[t].request
        res == IF r.op = "signup"
               THEN AppendStep(activities, r.activity_name, r.email)
               ELSE RemoveStep(activities, r.activity_name, r.email)
        copy == IF r.op = "signup"
                THEN ListAppend(threads[t].seen, r.email)
                ELSE ListRemove(threads[t].seen, r.email)
    IN  /\ threads[t].pc = "mutate"
        /\ activities' = [activities EXCEPT ![r.activity_name].participants = copy]
        /\ Finish(t, res.response)
        /\ Serial

\* the append or remove, and the return
Mutate(t) ==
    LET r == threads[t].request
        res == IF r.op = "signup"
               THEN AppendStep(activities, r.activity_name, r.email)
               ELSE RemoveStep(activities, r.activity_name, r.email)
    IN  /\ threads[t].pc = "mutate"
        /\ activities' = res.activities
        /\ Finish(t, res.response)
        /\ Serial

NextConc ==
    \/ \E t \in Threads, op \in {"signup", "unregister"},
          a \in ConcActivityNames, e \in ConcEmails : Dispatch(t, op, a, e)
    \/ \E t \in Threads : CheckActivity(t)
    \/ \E t \in Threads : CheckEmail(t)
    \/ \E t \in Threads : Mutate(t)

SpecConc == Init /\ [][NextConc]_vars

(***************************************************************************)
(* Vocabulary of the properties.                                           *)
(***************************************************************************)
Members(l) == {l[i] : i \in 1..Len(l)}

Occurrences(l, x) == Cardinality({i \in 1..Len(l) : l[i] = x})

IsSignup == request.op = "signup"
IsUnregister == request.op = "unregister"

\* the last request named an activity of the roster it started from
KnownActivity == request.activity_name \in DOMAIN before

\* the participants of the requested activity before and after the last request
ParticipantsBefore == before[request.activity_name].participants
ParticipantsAfter == activities[request.activity_name].participants

(***************************************************************************)
(* C1.  Uniqueness: in every state reachable by serialized requests no     *)
(* activity's participants sequence holds the same email more than once.   *)
(***************************************************************************)
C1_ParticipantsUnique ==
    \A a \in DOMAIN activities :
        \A i, j \in 1..Len(activities[a].participants) :
            activities[a].participants[i] = activities[a].participants[j] => i = j

\* a duplicate signup has just been attempted on a roster that signups have grown
C1_Witness ==
    /\ IsSignup /\ KnownActivity
    /\ request.email \in Members(ParticipantsBefore)
    /\ Len(activities["Chess Club"].participants) >= 4

(***************************************************************************)
(* C2.  Successful signup: for an activity A of the roster and an email e  *)
(* not among its participants, signup(A, e) answers 200 with the message   *)
(* "Signed up {e} for {A}" and participants(A) afterwards is the previous  *)
(* sequence with e appended as its last element.                           *)
(***************************************************************************)
C2_SignupAppends ==
    (IsSignup /\ KnownActivity /\ request.email \notin Members(ParticipantsBefore))
    => /\ response.status_code = 200
       /\ response.body = [message |-> "Signed up " \o request.email \o " for "
                                        \o request.activity_name]
       /\ Len(ParticipantsAfter) = Len(ParticipantsBefore) + 1
       /\ ParticipantsAfter[Len(ParticipantsAfter)] = request.email
       /\ \A i \in 1..Len(ParticipantsBefore) :
              ParticipantsAfter[i] = ParticipantsBefore[i]
       /\ request.email \in Members(ParticipantsAfter)

\* the example of the specification: new email signed up to Soccer Club after alex
C2_Witness ==
    /\ request = [op |-> "signup", activity_name |-> "Soccer Club",
                  email |-> "alice@mergington.edu"]
    /\ response.status_code = 200
    /\ response.body.message = "Signed up alice@mergington.edu for Soccer Club"
    /\ activities["Soccer Club"].participants
           = <<"alex@mergington.edu", "alice@mergington.edu">>

(***************************************************************************)
(* C3.  Duplicate signup: for an activity A of the roster and an email e   *)
(* already among its participants, signup(A, e) answers 400 with detail    *)
(* "Student already signed up for this activity" and the whole roster is   *)
(* the same before and after.                                              *)
(***************************************************************************)
C3_DuplicateSignupRejected ==
    (IsSignup /\ KnownActivity /\ request.email \in Members(ParticipantsBefore))
    => /\ response = [status_code |-> 400,
                      body |-> [detail |-> "Student already signed up for this activity"]]
       /\ activities = before

\* a signup repeated for an email that an earlier signup added
C3_Witness ==
    /\ IsSignup /\ KnownActivity
    /\ request.email \in Members(ParticipantsBefore)
    /\ request.email \notin Members(SeededActivities[request.activity_name].participants)
    /\ response.status_code = 400

(***************************************************************************)
(* C4.  Successful unregister: for an activity A of the roster and an      *)
(* email e among its participants, unregister(A, e) answers 200 with the   *)
(* message "Unregistered {e} from {A}"; afterwards e is no member, the     *)
(* length is one less, and the other participants are all still there in   *)
(* the same relative order.                                                *)
(***************************************************************************)
C4_UnregisterRemoves ==
    (IsUnregister /\ KnownActivity /\ request.email \in Members(ParticipantsBefore))
    => /\ response.status_code = 200
       /\ response.body = [message |-> "Unregistered " \o request.email \o " from "
                                        \o request.activity_name]
       /\ request.email \notin Members(ParticipantsAfter)
       /\ Len(ParticipantsAfter) = Len(ParticipantsBefore) - 1
       /\ ParticipantsAfter
              = SelectSeq(ParticipantsBefore, LAMBDA x : x # request.email)

\* one of several participants unregistered, from the middle of the list
C4_Witness ==
    /\ IsUnregister /\ KnownActivity
    /\ response.status_code = 200
    /\ Len(ParticipantsBefore) >= 3
    /\ ParticipantsBefore[2] = request.email

(***************************************************************************)
(* C5.  Unregister of a non-member: for an activity A of the roster and an *)
(* email e not among its participants, unregister(A, e) answers 400 with   *)
(* detail "Student not signed up for this activity" and the whole roster   *)
(* is the same before and after.                                           *)
(***************************************************************************)
C5_UnregisterNonMemberRejected ==
    (IsUnregister /\ KnownActivity /\ request.email \notin Members(ParticipantsBefore))
    => /\ response = [status_code |-> 400,
                      body |-> [detail |-> "Student not signed up for this activity"]]
       /\ activities = before

\* an unregister of an email absent from a non-empty participants list
C5_Witness ==
    /\ IsUnregister /\ KnownActivity
    /\ request.email \notin Members(ParticipantsBefore)
    /\ Len(ParticipantsBefore) >= 1
    /\ response.status_code = 400

(***************************************************************************)
(* C6.  Unknown activity: for a name that is no key of the roster and any  *)
(* email, signup and unregister both answer 404 with detail "Activity not  *)
(* found" (whatever the email is), and the roster, its key set included,   *)
(* is the same before and after: no activity entry is created.             *)
(***************************************************************************)
C6_UnknownActivityNotFound ==
    ((IsSignup \/ IsUnregister) /\ ~KnownActivity)
    => /\ response = [status_code |-> 404,
                      body |-> [detail |-> "Activity not found"]]
       /\ activities = before
       /\ DOMAIN activities = DOMAIN before
       /\ request.activity_name \notin DOMAIN activities

\* an unregister on the unknown activity, for an email that is a participant elsewhere
C6_Witness ==
    /\ IsUnregister /\ ~KnownActivity
    /\ response.status_code = 404
    /\ \E a \in DOMAIN activities : request.email \in Members(activities[a].participants)

\* a signup on the unknown activity
C6_WitnessSignup ==
    IsSignup /\ ~KnownActivity /\ response.status_code = 404

(***************************************************************************)
(* C7.  Unguarded check-then-mutate race (SpecConc): the membership check  *)
(* and the mutation are separate steps, and the mutation does not look at  *)
(* the list again.  Every signup that answered 200 has appended its email  *)
(* and every unregister that answered 200 has removed one entry, whatever  *)
(* other threads did in between: the number of entries of e in             *)
(* participants(A) is the seeded number, plus the signups (A, e) answered  *)
(* with 200, minus the unregisters (A, e) answered with 200.  Hence two    *)
(* concurrent signup(A, e) for a new e that both pass the check both       *)
(* append and both answer 200, and participants(A) holds e twice.          *)
(***************************************************************************)
Succeeded(op, a, e) ==
    {t \in Threads :
        /\ threads[t].pc = "done"
        /\ threads[t].request = [op |-> op, activity_name |-> a, email |-> e]
        /\ threads[t].response.status_code = 200}

C7_EverySuccessMutates ==
    \A a \in DOMAIN activities, e \in ConcEmails :
        Occurrences(activities[a].participants, e)
            = Occurrences(SeededActivities[a].participants, e)
              + Cardinality(Succeeded("signup", a, e))
              - Cardinality(Succeeded("unregister", a, e))

\* both signups of the new email alice to Soccer Club answered 200: she is in twice
C7_Witness ==
    \E t1, t2 \in Threads :
        /\ t1 # t2
        /\ {t1, t2} \subseteq Succeeded("signup", "Soccer Club", "alice@mergington.edu")
        /\ Occurrences(activities["Soccer Club"].participants,
                       "alice@mergington.edu") = 2

(***************************************************************************)
(* C8.  Insertion order (SpecHist): participants(A) lists the members of A *)
(* in the order of their most recent successful signup to A, the seeded    *)
(* members that never signed up again first, in seeded order.  The members *)
(* are the emails whose last successful request on A was a signup, and the *)
(* seeded emails with no successful request on A.                          *)
(***************************************************************************)
\* positions in the log of the successful requests op(a, e)
Events(op, a, e) ==
    {i \in 1..Len(log) :
        log[i] = [op |-> op, activity_name |-> a, email |-> e]}

Latest(S) == IF S = {} THEN 0 ELSE CHOOSE i \in S : \A j \in S : j <= i

LastSignup(a, e) == Latest(Events("signup", a, e))
LastUnregister(a, e) == Latest(Events("unregister", a, e))

\* position of e among the seeded participants of a, 0 when not seeded
SeedIndex(a, e) ==
    Latest({i \in 1..Len(SeededActivities[a].participants) :
               SeededActivities[a].participants[i] = e})

ExpectedMembers(a) ==
    {e \in Emails \cup Members(SeededActivities[a].participants) :
        \/ LastSignup(a, e) > LastUnregister(a, e)
        \/ SeedIndex(a, e) > 0 /\ LastSignup(a, e) = 0 /\ LastUnregister(a, e) = 0}

\* x comes before y: both never signed up again and seeded in this order, or
\* only x never signed up again, or x's most recent signup is the earlier one
SignedUpBefore(a, x, y) ==
    IF LastSignup(a, y) = 0
    THEN LastSignup(a, x) = 0 /\ SeedIndex(a, x) < SeedIndex(a, y)
    ELSE LastSignup(a, x) < LastSignup(a, y)

C8_InsertionOrder ==
    \A a \in DOMAIN activities :
        LET l == activities[a].participants
        IN  /\ Members(l) = ExpectedMembers(a)
            /\ \A i, j \in 1..Len(l) : i < j => SignedUpBefore(a, l[i], l[j])

\* three new emails signed up to Chess Club one after another
C8_Witness ==
    /\ Len(log) = 3
    /\ \A i \in 1..3 : log[i].op = "signup" /\ log[i].activity_name = "Chess Club"
    /\ activities["Chess Club"].participants
           = <<"michael@mergington.edu", "daniel@mergington.edu",
               log[1].email, log[2].email, log[3].email>>
    /\ log[1].email = "bob@mergington.edu"
    /\ log[2].email = "alex@mergington.edu"
    /\ log[3].email = "alice@mergington.edu"

\* a seeded member that unregistered and signed up again is now behind a later one
C8_WitnessResigned ==
    /\ activities["Soccer Club"].participants
           = <<"alice@mergington.edu", "alex@mergington.edu">>

(***************************************************************************)
(* C9.  Round trip: for an activity A of the roster and an email e not     *)
(* among its participants, signup(A, e) answers 200, and an unregister(A,  *)
(* e) that follows it immediately answers 200 too and leaves the roster    *)
(* exactly as it was before the signup (every participants sequence).      *)
(***************************************************************************)
C9_SignupUnregisterRoundTrip ==
    [][ (IsSignup /\ KnownActivity /\ request.email \notin Members(ParticipantsBefore))
        => /\ response.status_code = 200
           /\ (request' = [request EXCEPT !.op = "unregister"])
              => (response'.status_code = 200 /\ activities' = before) ]_vars

\* alice signed up to Soccer Club and unregistered again: the seeded roster is back
C9_Witness ==
    /\ request = [op |-> "unregister", activity_name |-> "Soccer Club",
                  email |-> "alice@mergington.edu"]
    /\ response.status_code = 200
    /\ before["Soccer Club"].participants
           = <<"alex@mergington.edu", "alice@mergington.edu">>
    /\ activities = SeededActivities

(***************************************************************************)
(* C10.  No capacity enforcement (SpecFull): signup(A, e) for an activity  *)
(* A of the roster and an email e not among its participants answers 200   *)
(* and appends e also when A already has max_participants participants or  *)
(* more; a signup is refused only for an unknown activity (404) or an      *)
(* email that is a participant already (400), never for capacity.          *)
(***************************************************************************)
C10_NoCapacityEnforcement ==
    IsSignup =>
        /\ (/\ KnownActivity
            /\ request.email \notin Members(ParticipantsBefore)
            /\ Len(ParticipantsBefore) >= before[request.activity_name].max_participants)
           => /\ response.status_code = 200
              /\ ParticipantsAfter = ParticipantsBefore \o <<request.email>>
        /\ response.status_code # 200
           => \/ ~KnownActivity /\ response.status_code = 404
              \/ /\ KnownActivity
                 /\ request.email \in Members(ParticipantsBefore)
                 /\ response.status_code = 400

\* a signup to an activity over its capacity already was answered with 200
C10_Witness ==
    /\ IsSignup /\ KnownActivity
    /\ response.status_code = 200
    /\ Len(ParticipantsBefore) > before[request.activity_name].max_participants
    /\ Len(ParticipantsAfter) > activities[request.activity_name].max_participants + 1

(***************************************************************************)
(* C11.  Fixed roster shape: in every state reachable by list, signup,     *)
(* unregister and root requests, failing ones included, the activity names *)
(* of the roster are the seeded ones and every activity has its seeded     *)
(* description, schedule and max_participants: an activity differs from    *)
(* its seeded entry in its participants sequence at most.                  *)
(***************************************************************************)
C11_RosterShapeFixed ==
    /\ DOMAIN activities = DOMAIN SeededActivities
    /\ \A a \in DOMAIN SeededActivities :
           /\ activities[a].description = SeededActivities[a].description
           /\ activities[a].schedule = SeededActivities[a].schedule
           /\ activities[a].max_participants = SeededActivities[a].max_participants
           /\ [activities[a] EXCEPT !.participants = SeededActivities[a].participants]
                  = SeededActivities[a]

\* a request on an unknown activity failed, after signups and an unregister
\* changed the participants of both requested activities
C11_Witness ==
    /\ (IsSignup \/ IsUnregister) /\ ~KnownActivity
    /\ response.status_code = 404
    /\ Len(activities["Soccer Club"].participants) >= 2
    /\ "alex@mergington.edu" \notin Members(activities["Soccer Club"].participants)
    /\ Len(activities["Chess Club"].participants) >= 3

(***************************************************************************)
(* C12.  list_activities is a pure read of the current state: GET          *)
(* /activities answers 200 with a mapping whose keys are exactly the       *)
(* activity names of the roster, each entry carrying description,          *)
(* schedule, max_participants and the participants list the activity has   *)
(* at that moment, and the roster is the same before and after.            *)
(***************************************************************************)
IsList == request.op = "list"

C12_ListReturnsCurrentRoster ==
    IsList =>
        /\ response.status_code = 200
        /\ DOMAIN response.body = DOMAIN before
        /\ \A a \in DOMAIN before :
               /\ {"description", "schedule", "max_participants", "participants"}
                      \subseteq DOMAIN response.body[a]
               /\ response.body[a].description = before[a].description
               /\ response.body[a].schedule = before[a].schedule
               /\ response.body[a].max_participants = before[a].max_participants
               /\ response.body[a].participants = before[a].participants
        /\ activities = before

\* the listing shows an earlier signup and an earlier unregister
C12_Witness ==
    /\ IsList
    /\ response.status_code = 200
    /\ response.body["Chess Club"].participants
           = <<"michael@mergington.edu", "daniel@mergington.edu",
               "alice@mergington.edu">>
    /\ response.body["Soccer Club"].participants = <<>>

(***************************************************************************)
(* C13.  Only two error kinds (SpecConc): every signup or unregister       *)
(* request ends with exactly one of success (200), NotFound (404) or       *)
(* Conflict (400), also when the checks and mutations of concurrent        *)
(* requests on the same activity and email interleave; a removal of an     *)
(* email that is no longer in the list is a further outcome (500).         *)
(***************************************************************************)
C13_OnlyTwoErrorKinds ==
    \A t \in Threads :
        threads[t].pc = "done"
            => threads[t].response.status_code \in {200, 400, 404}

(***************************************************************************)
(* C14.  Root redirect: GET / answers with a 307 redirect to               *)
(* /static/index.html whatever the roster holds, and the roster is the     *)
(* same before and after.                                                  *)
(***************************************************************************)
IsRoot == request.op = "root"

C14_RootRedirects ==
    IsRoot =>
        /\ response.status_code = 307
        /\ response.headers.location = "/static/index.html"
        /\ activities = before

\* the redirect is given on a roster that signups and an unregister changed
C14_Witness ==
    /\ IsRoot
    /\ response.status_code = 307
    /\ activities["Soccer Club"].participants = <<"bob@mergington.edu">>
    /\ Len(activities["Chess Club"].participants) = 5

(***************************************************************************)
(* C15.  Per-activity isolation: a signup(A, e) or unregister(A, e),       *)
(* whatever its outcome, leaves every activity other than A as it was, and *)
(* its outcome is decided by whether A is a key of the roster and whether  *)
(* e is among the participants of A, nothing else: 404 for an unknown A,   *)
(* else 400 for a signup of a participant of A or an unregister of a       *)
(* non-participant of A, else 200.  So an email can be a participant of    *)
(* several activities, and signup(A, e) succeeds when e is a participant   *)
(* of another activity.                                                    *)
(***************************************************************************)
C15_PerActivityIsolation ==
    (IsSignup \/ IsUnregister) =>
        /\ DOMAIN activities = DOMAIN before
        /\ \A b \in DOMAIN before \ {request.activity_name} :
               activities[b] = before[b]
        /\ response.status_code
               = IF ~KnownActivity THEN 404
                 ELSE IF IsSignup = (request.email \in Members(ParticipantsBefore))
                 THEN 400
                 ELSE 200

\* alex, seeded in Soccer Club and still there, has just signed up to Chess Club
C15_Witness ==
    /\ request = [op |-> "signup", activity_name |-> "Chess Club",
                  email |-> "alex@mergington.edu"]
    /\ response.status_code = 200
    /\ "alex@mergington.edu" \in Members(before["Soccer Club"].participants)
    /\ "alex@mergington.edu" \in Members(activities["Soccer Club"].participants)
    /\ "alex@mergington.edu" \in Members(activities["Chess Club"].participants)

(***************************************************************************)
(* C16.  Reverse round trip: for an activity A of the roster and an email  *)
(* e among its participants, unregister(A, e) answers 200, and a           *)
(* signup(A, e) that follows it immediately answers 200 too and restores   *)
(* the participant set and the length; e is then the last element of       *)
(* participants(A) and the other members keep their relative order.  The   *)
(* sequence is the one before the unregister exactly when e was its last   *)
(* element already; otherwise e has left its original position.            *)
(***************************************************************************)
\* the last request was an unregister of a participant, the next one signs the
\* same email up to the same activity again
ReverseRoundTrip ==
    /\ IsUnregister /\ KnownActivity
    /\ request.email \in Members(ParticipantsBefore)
    /\ response.status_code = 200
    /\ request' = [request EXCEPT !.op = "signup"]

\* what the claim says of the participants after the signup
MovedToTheEnd ==
    /\ response'.status_code = 200
    /\ Members(ParticipantsAfter') = Members(ParticipantsBefore)
    /\ Len(ParticipantsAfter') = Len(ParticipantsBefore)
    /\ ParticipantsAfter'[Len(ParticipantsAfter')] = request.email
    /\ ParticipantsAfter'
           = SelectSeq(ParticipantsBefore, LAMBDA x : x # request.email)
             \o <<request.email>>

C16_ReverseRoundTripMovesToEnd ==
    [][ /\ (IsUnregister /\ KnownActivity
                /\ request.email \in Members(ParticipantsBefore))
           => response.status_code = 200
        /\ ReverseRoundTrip
           => /\ MovedToTheEnd
              /\ (ParticipantsAfter' = ParticipantsBefore)
                     <=> (ParticipantsBefore[Len(ParticipantsBefore)] = request.email)
      ]_vars

\* the claim as stated: the original position of e is never restored
C16_OriginalPositionNotRestored ==
    [][ ReverseRoundTrip
           => /\ MovedToTheEnd
              /\ ParticipantsAfter' # ParticipantsBefore ]_vars

\* alex, seeded first in Soccer Club, unregistered and signed up again behind alice
C16_Witness ==
    /\ request = [op |-> "signup", activity_name |-> "Soccer Club",
                  email |-> "alex@mergington.edu"]
    /\ response.status_code = 200
    /\ activities["Soccer Club"].participants
           = <<"alice@mergington.edu", "alex@mergington.edu">>

(***************************************************************************)
(* C17.  No lost update for distinct emails (SpecConc): while the requests *)
(* taken by the threads concern pairwise different emails, under every     *)
(* interleaving of their check and mutate steps                            *)
(*  - every finished request has the response it has in every serial      *)
(*    order: 404 for an unknown activity, else 400 for a signup of a       *)
(*    seeded participant or an unregister of an email not seeded, else 200;*)
(*  - the participants of an activity are its seeded participants without  *)
(*    the emails unregistered with 200, plus the emails signed up with     *)
(*    200, each once: no successful request is undone by a request for     *)
(*    another email;                                                       *)
(*  - roster and responses are those of the finished requests handled one  *)
(*    at a time in some order.                                             *)
(***************************************************************************)
Dispatched == {t \in Threads : threads[t].pc # "idle"}
Done == {t \in Threads : threads[t].pc = "done"}

PairwiseDifferentEmails ==
    \A t1, t2 \in Dispatched :
        threads[t1].request.email = threads[t2].request.email => t1 = t2

\* the status of request r when nothing but the seeded roster decides it
SeededStatus(r) ==
    IF r.activity_name \notin DOMAIN SeededActivities THEN 404
    ELSE IF (r.op = "signup")
            = (r.email \in Members(SeededActivities[r.activity_name].participants))
    THEN 400
    ELSE 200

HandlerResult(acts, r) ==
    IF r.op = "signup"
    THEN SignupResult(acts, r.activity_name, r.email)
    ELSE UnregisterResult(acts, r.activity_name, r.email)

\* the requests of the threads in `order` handled one at a time, from acts
RECURSIVE SerialRun(_, _, _)
SerialRun(acts, order, responses) ==
    IF order = <<>>
    THEN [activities |-> acts, responses |-> responses]
    ELSE LET res == HandlerResult(acts, threads[Head(order)].request)
         IN  SerialRun(res.activities, Tail(order),
                       [responses EXCEPT ![Head(order)] = res.response])

Orders(S) ==
    {o \in [1..Cardinality(S) -> S] : \A i, j \in DOMAIN o : o[i] = o[j] => i = j}

SomeSerialOrder ==
    \E o \in Orders(Done) :
        LET run == SerialRun(SeededActivities, o, [t \in Threads |-> NoResponse])
        IN  /\ run.activities = activities
            /\ \A t \in Done : run.responses[t] = threads[t].response

C17_NoLostUpdate ==
    PairwiseDifferentEmails =>
        /\ \A t \in Done :
               threads[t].response.status_code = SeededStatus(threads[t].request)
        /\ \A a \in DOMAIN activities :
               /\ Members(activities[a].participants)
                      = (Members(SeededActivities[a].participants)
                             \ {e \in ConcEmails : Succeeded("unregister", a, e) # {}})
                        \cup {e \in ConcEmails : Succeeded("signup", a, e) # {}}
               /\ Len(activities[a].participants)
                      = Cardinality(Members(activities[a].participants))
        /\ SomeSerialOrder

\* alice signed up and alex unregistered on Soccer Club, both with 200, after
\* both membership checks had read the seeded list
C17_Witness ==
    \E t1, t2 \in Threads :
        /\ t1 \in Succeeded("signup", "Soccer Club", "alice@mergington.edu")
        /\ t2 \in Succeeded("unregister", "Soccer Club", "alex@mergington.edu")
        /\ threads[t1].seen = <<"alex@mergington.edu">>
        /\ threads[t2].seen = <<"alex@mergington.edu">>
        /\ Dispatched = {t1, t2}
        /\ activities["Soccer Club"].participants = <<"alice@mergington.edu">>

====
